---- MODULE Spec2Model ----
(***************************************************************************)
(* A model of the brainfuck interpreter (interpreter/src/lib.rs).          *)
(*                                                                         *)
(* interpret(source, stdin) first runs parse_source, token by token, and   *)
(* then walks the operation tree with Program::process_operations.  The    *)
(* recursion of process_operations is an explicit stack of frames.         *)
(*                                                                         *)
(* Representation choices (they change no behaviour):                      *)
(*  - the source text is a sequence of pieces [ch, n], the piece standing  *)
(*    for the character ch written n times; pos counts the characters the  *)
(*    token iterator has consumed;                                         *)
(*  - memory, an array of MEMORY_SIZE bytes, is stored as the sequence of  *)
(*    its stretches of equal nonzero cells;                                *)
(*  - the input stream is the sequence of the results its read() calls     *)
(*    will give, a byte or an I/O fault, and read() gives Ok(0) after it;  *)
(*  - a character of the output is its code point.                         *)
(***************************************************************************)
EXTENDS Integers, Sequences, FiniteSets, TLC

VARIABLES
    overflow_checks, \* the build: TRUE when integer overflow panics (debug)
    source,          \* interpret's source argument
    input,           \* interpret's stdin argument, as read() results
    pos,             \* parse_source: characters consumed by the token iterator
    stack,           \* parse_source: the stack of in-progress sequences
    parsed,          \* parse_source: its outcome
    memory,          \* Program.memory
    pointer,         \* Program.pointer
    inpos,           \* Program.stdin: read() results consumed
    stdout,          \* Program.stdout
    frames,          \* the active calls of process_operations
    ret              \* interpret's outcome

vars == <<overflow_checks, source, input, pos, stack, parsed, memory, pointer,
          inpos, stdout, frames, ret>>

parseVars == <<pos, stack, parsed>>
progVars == <<memory, pointer, inpos, stdout, frames>>
argVars == <<overflow_checks, source, input>>

----------------------------------------------------------------------------
(* Program constants and the bounds of the model *)

MEMORY_SIZE == 30000

U8_MAX == 255

\* The longest source built from single characters.
MaxSrcLen == 4

\* The longest program of single characters that is executed.
MaxProgLen == 3

\* The longest input stream given to a short program.
MaxInLen == 1

\* The longest input stream given to the cat program.
MaxCatLen == 3

\* The longest program of moves alone.
MaxMoveLen == 5

\* The longest text that follows a run of '>' to the end of the tape.
MaxTailLen == 3

\* The longest output a run may accumulate in the model.
MaxOut == 3

\* How far past U8_MAX the long runs of one character go.
RunSlack == 2

\* The most characters the character-by-character run of a source takes.
MaxDirectSteps == 1500

----------------------------------------------------------------------------
(* Source text *)

InstrChars == {">", "<", "+", "-", ".", ",", "[", "]"}

\* "x" stands for every character outside the instruction table.
Chars == InstrChars \cup {"x"}

Piece(c, n) == [ch |-> c, n |-> n]

RECURSIVE SrcLen(_)
SrcLen(src) ==
    IF src = <<>> THEN 0 ELSE Head(src).n + SrcLen(Tail(src))

\* The i-th character of the source, 1 <= i <= SrcLen(src).
RECURSIVE CharAt(_, _)
CharAt(src, i) ==
    IF i <= Head(src).n THEN Head(src).ch
    ELSE CharAt(Tail(src), i - Head(src).n)

\* Every text of at most len characters of alphabet.
Texts(alphabet, len) ==
    UNION {[1..k -> {Piece(c, 1) : c \in alphabet}] : k \in 0..len}

----------------------------------------------------------------------------
(* Tokens and operations *)

\* A bug: a character outside the table gives a token.
TokenOfAny(c) ==
    CASE c = ">" -> "MoveRight"
      [] c = "<" -> "MoveLeft"
      [] c = "+" -> "Increment"
      [] c = "-" -> "Decrement"
      [] c = "." -> "Output"
      [] c = "," -> "Input"
      [] c = "[" -> "LoopBegin"
      [] c = "]" -> "LoopEnd"
      [] OTHER -> "Output"

Token(c) ==
    CASE c = ">" -> "MoveRight"
      [] c = "<" -> "MoveLeft"
      [] c = "+" -> "Increment"
      [] c = "-" -> "Decrement"
      [] c = "." -> "Output"
      [] c = "," -> "Input"
      [] c = "[" -> "LoopBegin"
      [] c = "]" -> "LoopEnd"
      [] OTHER -> "Unknown"

\* The filter of the token iterator: the position of the first character
\* after i that gives a token, SrcLen(src) + 1 when there is none.
RECURSIVE NextTokenPos(_, _)
NextTokenPos(src, i) ==
    IF i + 1 > SrcLen(src) THEN SrcLen(src) + 1
    ELSE IF Token(CharAt(src, i + 1)) # "Unknown" THEN i + 1
    ELSE NextTokenPos(src, i + 1)

\* An Operation; count is 0 where the variant has none, body is empty
\* unless the variant is Loop.
Op(kind, count, body) == [kind |-> kind, count |-> count, body |-> body]

Last(s) == s[Len(s)]

Front(s) == SubSeq(s, 1, Len(s) - 1)

\* parse_source's outcome.
NoOutcome == [tag |-> "None", msg |-> "", ops |-> <<>>]
ParseOk(ops) == [tag |-> "Ok", msg |-> "", ops |-> ops]
ParseErr(msg) == [tag |-> "Err", msg |-> msg, ops |-> <<>>]
ParsePanic == [tag |-> "Panic", msg |-> "attempt to add with overflow", ops |-> <<>>]

----------------------------------------------------------------------------
(* parse_source, one token per step *)

Parsing == parsed.tag = "None"

TokenPos == NextTokenPos(source, pos)

HasToken == TokenPos <= SrcLen(source)

CurToken == Token(CharAt(source, TokenPos))

\* cur_operations: the sequence on top of the stack.
CurOperations == Last(stack)

\* A MoveRight or MoveLeft token: the last operation's count grows by one
\* when it is of the same kind, else a new operation of count 1 is pushed.
\* The count is a usize; it cannot pass usize::MAX, the source being
\* shorter than that.
FuseUsize(ops, kind) ==
    IF ops # <<>> /\ Last(ops).kind = kind
    THEN [ops EXCEPT ![Len(ops)].count = @ + 1]
    ELSE Append(ops, Op(kind, 1, <<>>))

\* *x += 1 on a u8 overflows when x is U8_MAX.
OverflowsU8(ops, kind) ==
    ops # <<>> /\ Last(ops).kind = kind /\ Last(ops).count = U8_MAX

\* A bug: the token is fused into the last operation whenever that one
\* has a count, whatever its kind.
FuseU8IntoAnyCount(ops, kind) ==
    IF ops # <<>> /\ Last(ops).count > 0
    THEN [ops EXCEPT ![Len(ops)].count = (@ + 1) % (U8_MAX + 1)]
    ELSE Append(ops, Op(kind, 1, <<>>))

\* An Increment or Decrement token: as FuseUsize, on a u8 count, which
\* wraps to 0 past U8_MAX when the build does not check overflow.
FuseU8(ops, kind) ==
    IF ops # <<>> /\ Last(ops).kind = kind
    THEN [ops EXCEPT ![Len(ops)].count = (@ + 1) % (U8_MAX + 1)]
    ELSE Append(ops, Op(kind, 1, <<>>))

SetTop(stk, ops) == [stk EXCEPT ![Len(stk)] = ops]

TokenMoveRight ==
    /\ Parsing /\ HasToken /\ CurToken = "MoveRight"
    /\ stack' = SetTop(stack, FuseUsize(CurOperations, "MoveRight"))
    /\ pos' = TokenPos
    /\ UNCHANGED <<parsed, argVars, progVars, ret>>

TokenMoveLeft ==
    /\ Parsing /\ HasToken /\ CurToken = "MoveLeft"
    /\ stack' = SetTop(stack, FuseUsize(CurOperations, "MoveLeft"))
    /\ pos' = TokenPos
    /\ UNCHANGED <<parsed, argVars, progVars, ret>>

\* A u8 token: with overflow checks the overflowing *x += 1 panics.
TokenU8(kind) ==
    /\ pos' = TokenPos
    /\ IF OverflowsU8(CurOperations, kind) /\ overflow_checks
       THEN /\ parsed' = ParsePanic
            /\ stack' = stack
       ELSE /\ stack' = SetTop(stack, FuseU8(CurOperations, kind))
            /\ parsed' = parsed
    /\ UNCHANGED <<argVars, progVars, ret>>

TokenIncrement ==
    /\ Parsing /\ HasToken /\ CurToken = "Increment"
    /\ TokenU8("Increment")

TokenDecrement ==
    /\ Parsing /\ HasToken /\ CurToken = "Decrement"
    /\ TokenU8("Decrement")

TokenInput ==
    /\ Parsing /\ HasToken /\ CurToken = "Input"
    /\ stack' = SetTop(stack, Append(CurOperations, Op("Input", 0, <<>>)))
    /\ pos' = TokenPos
    /\ UNCHANGED <<parsed, argVars, progVars, ret>>

TokenOutput ==
    /\ Parsing /\ HasToken /\ CurToken = "Output"
    /\ stack' = SetTop(stack, Append(CurOperations, Op("Output", 0, <<>>)))
    /\ pos' = TokenPos
    /\ UNCHANGED <<parsed, argVars, progVars, ret>>

TokenLoopBegin ==
    /\ Parsing /\ HasToken /\ CurToken = "LoopBegin"
    /\ stack' = Append(stack, <<>>)
    /\ pos' = TokenPos
    /\ UNCHANGED <<parsed, argVars, progVars, ret>>

\* The message of the error a LoopEnd token gives on an empty stack.
UnexpectedEnd == "Unexpected end of loop"

\* A bug: a LoopEnd token that empties the stack gives no error.
LoopEndGoesOn(rest) == NoOutcome

\* The outcome of a LoopEnd token whose pop left the stack rest: the error
\* when rest is empty, else nothing yet.
LoopEndOutcome(rest) ==
    IF rest = <<>> THEN ParseErr(UnexpectedEnd) ELSE NoOutcome

\* A LoopEnd token: pop the top sequence and push it, as a Loop, onto the
\* sequence below; an error when there is none below.
TokenLoopEnd ==
    /\ Parsing /\ HasToken /\ CurToken = "LoopEnd"
    /\ pos' = TokenPos
    /\ LET cur == Last(stack)
           rest == Front(stack)
       IN /\ parsed' = LoopEndOutcome(rest)
          /\ stack' = IF rest = <<>> THEN rest
                      ELSE SetTop(rest, Append(Last(rest), Op("Loop", 0, cur)))
    /\ UNCHANGED <<argVars, progVars, ret>>

ExpectedEnd == "Expected end of loop"

\* The outcome after the last token: operations is the sequence popped,
\* rest the stack the pop left.
FinishOutcome(operations, rest) ==
    IF rest # <<>> THEN ParseErr(ExpectedEnd) ELSE ParseOk(operations)

\* After the last token: pop the top-level sequence; an error when a loop
\* is still open.
ParseFinish ==
    /\ Parsing /\ ~HasToken
    /\ pos' = SrcLen(source)
    /\ stack' = Front(stack)
    /\ parsed' = FinishOutcome(Last(stack), Front(stack))
    /\ UNCHANGED <<argVars, progVars, ret>>

ParseStep ==
    \/ TokenMoveRight
    \/ TokenMoveLeft
    \/ TokenIncrement
    \/ TokenDecrement
    \/ TokenInput
    \/ TokenOutput
    \/ TokenLoopBegin
    \/ TokenLoopEnd
    \/ ParseFinish

----------------------------------------------------------------------------
(* parse_source as a function of the source *)

\* The state of the token loop: its stack and its outcome so far.
LoopState(stk, outcome) == [stack |-> stk, parsed |-> outcome]

\* One turn of the token loop on token tok.
ApplyToken(st, tok, build) ==
    LET cur == Last(st.stack)
        rest == Front(st.stack)
    IN CASE tok \in {"MoveRight", "MoveLeft"} ->
              LoopState(SetTop(st.stack, FuseUsize(cur, tok)), st.parsed)
         [] tok \in {"Increment", "Decrement"} ->
              IF OverflowsU8(cur, tok) /\ build
              THEN LoopState(st.stack, ParsePanic)
              ELSE LoopState(SetTop(st.stack, FuseU8(cur, tok)), st.parsed)
         [] tok \in {"Input", "Output"} ->
              LoopState(SetTop(st.stack, Append(cur, Op(tok, 0, <<>>))), st.parsed)
         [] tok = "LoopBegin" ->
              LoopState(Append(st.stack, <<>>), st.parsed)
         [] tok = "LoopEnd" ->
              LoopState(IF rest = <<>> THEN rest
                        ELSE SetTop(rest, Append(Last(rest), Op("Loop", 0, cur))),
                        LoopEndOutcome(rest))

\* The outcome of the token loop from character i of src on, st being its
\* state, and of the lines after the loop.
RECURSIVE ParseFrom(_, _, _, _)
ParseFrom(src, i, st, build) ==
    IF st.parsed # NoOutcome THEN st.parsed
    ELSE IF NextTokenPos(src, i) > SrcLen(src)
         THEN FinishOutcome(Last(st.stack), Front(st.stack))
    ELSE ParseFrom(src, NextTokenPos(src, i),
                   ApplyToken(st, Token(CharAt(src, NextTokenPos(src, i))), build),
                   build)

\* parse_source(src) in a build.
ParseSource(src, build) ==
    ParseFrom(src, 0, LoopState(<< <<>> >>, NoOutcome), build)

----------------------------------------------------------------------------
(* interpret's outcome and the machine *)

RetNone == [tag |-> "None", kind |-> "", msg |-> "", out |-> <<>>]
RetOk(out) == [tag |-> "Ok", kind |-> "", msg |-> "", out |-> out]
RetErr(kind, msg) == [tag |-> "Err", kind |-> kind, msg |-> msg, out |-> <<>>]
RetPanic == [tag |-> "Panic", kind |-> "", msg |-> "", out |-> <<>>]

\* A fresh tape: every cell is zero.
ZeroMemory == <<>>

\* The builds a source is run under.  The build is read only where a u8
\* count overflows, which takes a source of more than U8_MAX characters:
\* on every other source one build stands for both.
Builds(src) == IF SrcLen(src) > U8_MAX THEN BOOLEAN ELSE {TRUE}

\* The state interpret starts in, for a build, a source and an input.
Start(build, src, in) ==
    /\ overflow_checks = build
    /\ source = src
    /\ input = in
    /\ pos = 0
    /\ stack = << <<>> >>
    /\ parsed = NoOutcome
    /\ memory = ZeroMemory
    /\ pointer = 0
    /\ inpos = 0
    /\ stdout = <<>>
    /\ frames = <<>>
    /\ ret = RetNone

----------------------------------------------------------------------------
(* The parser alone, on every short text and on long runs *)

FusedChars == {">", "<", "+", "-"}

RunLengths == (U8_MAX - 1)..(U8_MAX + RunSlack)

\* A run of one fused character around the u8 limit, alone and in a loop.
LongRuns ==
    {<<Piece(c, k)>> : c \in FusedChars, k \in RunLengths}
    \cup {<<Piece("[", 1), Piece(c, k), Piece("]", 1)>> :
            c \in FusedChars, k \in RunLengths}

\* Longer texts with the same character on both sides of a loop.
ChosenSources ==
    { <<Piece("+", 1), Piece("[", 1), Piece("+", 1), Piece("]", 1), Piece("+", 1)>>,
      <<Piece(">", 1), Piece("[", 1), Piece(">", 1), Piece("]", 1), Piece(">", 1)>>,
      <<Piece("-", 2), Piece("[", 1), Piece("-", 2), Piece(".", 2), Piece("-", 2),
        Piece("]", 1), Piece("-", 2)>> }

ParseSources == Texts(Chars, MaxSrcLen) \cup LongRuns \cup ChosenSources

InitParse ==
    \E src \in ParseSources :
        \E build \in Builds(src) : Start(build, src, <<>>)

SpecParse == InitParse /\ [][ParseStep]_vars

----------------------------------------------------------------------------
(* Program: the tape machine *)

\* Option::None of the checked operations; Some(v) is v itself.
None == -1

\* A bug: the subtraction is not checked, and the pointer leaves the tape
\* on the left.
UncheckedSub(a, b) == a - b

\* usize::checked_sub.
CheckedSub(a, b) == IF b > a THEN None ELSE a - b

\* usize::checked_add.  It gives None past usize::MAX, which no count
\* reaches: a count is at most the length of the source.
CheckedAdd(a, b) == a + b

\* A bug: the addition wraps modulo 256.
WrappingAddU8(a, b) == (a + b) % (U8_MAX + 1)

\* u8::checked_add.
CheckedAddU8(a, b) == IF a + b > U8_MAX THEN None ELSE a + b

\* u8::checked_sub.
CheckedSubU8(a, b) == IF b > a THEN None ELSE a - b

\* The tape is kept as its stretches of equal nonzero cells, from left to
\* right: cells lo..hi all hold v.  No two stretches overlap, and two that
\* touch hold different values, so equal tapes are equal sequences.
Stretch(lo, hi, v) == [lo |-> lo, hi |-> hi, v |-> v]

\* The stretches of s with those that touch and hold one value joined.
RECURSIVE Joined(_)
Joined(s) ==
    IF Len(s) < 2 THEN s
    ELSE IF s[1].hi + 1 = s[2].lo /\ s[1].v = s[2].v
         THEN Joined(<<Stretch(s[1].lo, s[2].hi, s[1].v)>> \o Tail(Tail(s)))
    ELSE <<s[1]>> \o Joined(Tail(s))

\* memory[i].
Cell(m, i) ==
    LET at == {k \in 1..Len(m) : m[k].lo <= i /\ i <= m[k].hi}
    IN IF at = {} THEN 0 ELSE m[CHOOSE k \in at : TRUE].v

\* A bug: a write to a cell clears every other cell.
SetCellAlone(m, i, v) == IF v = 0 THEN <<>> ELSE <<Stretch(i, i, v)>>

\* memory[i] = v.
SetCell(m, i, v) ==
    LET Left(r) == r.lo < i
        Right(r) == r.hi > i
        left == [k \in 1..Len(SelectSeq(m, Left)) |->
                    LET r == SelectSeq(m, Left)[k]
                    IN Stretch(r.lo, IF r.hi < i THEN r.hi ELSE i - 1, r.v)]
        right == [k \in 1..Len(SelectSeq(m, Right)) |->
                     LET r == SelectSeq(m, Right)[k]
                     IN Stretch(IF r.lo > i THEN r.lo ELSE i + 1, r.hi, r.v)]
        here == IF v = 0 THEN <<>> ELSE <<Stretch(i, i, v)>>
    IN Joined(left \o here \o right)

\* A result of stdin.read on a one-byte buffer: Ok(1) with the byte, or
\* Err.
ReadByte(b) == [ok |-> TRUE, byte |-> b]
ReadFault == [ok |-> FALSE, byte |-> 0]

\* buf[0] after the read: buf is [0u8] before it, and a read at the end
\* of the input gives Ok(0) and leaves it so.
BufAfterRead(in, k) == IF k < Len(in) THEN in[k + 1].byte ELSE 0

\* A bug: a read does not move on in the input.
AfterReadStays(in, k) == k

\* The read() results consumed after one more read.
AfterRead(in, k) == IF k < Len(in) THEN k + 1 ELSE k

\* A bug: a read at the end of the input is taken for an Err.
ReadFailsAtEnd(in, k) == k >= Len(in) \/ ~in[k + 1].ok

\* Whether the read of an Input is an Err, k results being consumed.
ReadFails(in, k) == k < Len(in) /\ ~in[k + 1].ok

\* A bug: the output keeps seven bits of the byte.
AsAscii(b) == b % 128

\* memory[pointer] as char: the character whose code point is the byte.
AsChar(b) == b

\* A bug: the body of a Loop is entered whatever the cell holds.
LoopAlwaysEnters(cell) == TRUE

\* The while condition of a Loop.
LoopEnters(cell) == cell # 0

Top == Last(frames)

Executing == frames # <<>>

AtEnd == Executing /\ Top.pc > Len(Top.ops)

CurOp == Top.ops[Top.pc]

\* The for loop of process_operations is at an operation of this kind.
AtOp(kind) == Executing /\ Top.pc <= Len(Top.ops) /\ CurOp.kind = kind

\* The for loop moves to the next operation.
Advance(fr) == [fr EXCEPT ![Len(fr)].pc = @ + 1]

\* A bug: an error ends the innermost call alone, as a break would.
UnwindOne(fr) == Front(fr)

\* The calls of process_operations left active by an error: the ?
\* operator returns it from every one of them.
Unwind(fr) == <<>>

\* An operation fails: the error is interpret's outcome.
Raise(kind) ==
    /\ ret' = RetErr(kind, "")
    /\ frames' = Unwind(frames)

Continue ==
    /\ ret' = ret
    /\ frames' = Advance(frames)

\* interpret, after parse_source failed: the error is returned (a panic
\* goes on unwinding).
InterpretFail ==
    /\ parsed.tag \in {"Err", "Panic"}
    /\ ret = RetNone
    /\ ret' = IF parsed.tag = "Err" THEN RetErr("ParseError", parsed.msg)
              ELSE RetPanic
    /\ UNCHANGED <<argVars, parseVars, progVars>>

\* interpret, after parse_source succeeded: Program::new, then execute
\* calls process_operations on the top-level sequence.
InterpretExecute ==
    /\ parsed.tag = "Ok"
    /\ ret = RetNone
    /\ frames = <<>>
    /\ memory' = ZeroMemory
    /\ pointer' = 0
    /\ inpos' = 0
    /\ stdout' = <<>>
    /\ frames' = <<[ops |-> parsed.ops, pc |-> 1]>>
    /\ UNCHANGED <<argVars, parseVars, ret>>

\* A bug: the check is off by one.
OutOfBoundsLate(p) == p > MEMORY_SIZE

\* The check of the pointer after a move to the right.
OutOfBounds(p) == p >= MEMORY_SIZE

ExecMoveLeft ==
    /\ AtOp("MoveLeft")
    /\ LET p == CheckedSub(pointer, CurOp.count)
       IN IF p = None
          THEN Raise("PointerOverflow") /\ pointer' = pointer
          ELSE Continue /\ pointer' = p
    /\ UNCHANGED <<argVars, parseVars, memory, inpos, stdout>>

\* The pointer is assigned before it is compared with memory.len().
ExecMoveRight ==
    /\ AtOp("MoveRight")
    /\ LET p == CheckedAdd(pointer, CurOp.count)
       IN IF p = None
          THEN Raise("PointerOverflow") /\ pointer' = pointer
          ELSE /\ pointer' = p
               /\ IF OutOfBounds(p)
                  THEN Raise("PointerOverflow") ELSE Continue
    /\ UNCHANGED <<argVars, parseVars, memory, inpos, stdout>>

ExecIncrement ==
    /\ AtOp("Increment")
    /\ LET v == CheckedAddU8(Cell(memory, pointer), CurOp.count)
       IN IF v = None
          THEN Raise("MemoryOverflow") /\ memory' = memory
          ELSE Continue /\ memory' = SetCell(memory, pointer, v)
    /\ UNCHANGED <<argVars, parseVars, pointer, inpos, stdout>>

ExecDecrement ==
    /\ AtOp("Decrement")
    /\ LET v == CheckedSubU8(Cell(memory, pointer), CurOp.count)
       IN IF v = None
          THEN Raise("MemoryOverflow") /\ memory' = memory
          ELSE Continue /\ memory' = SetCell(memory, pointer, v)
    /\ UNCHANGED <<argVars, parseVars, pointer, inpos, stdout>>

ExecInput ==
    /\ AtOp("Input")
    /\ inpos' = AfterRead(input, inpos)
    /\ IF ReadFails(input, inpos)
       THEN Raise("StdinError") /\ memory' = memory
       ELSE /\ Continue
            /\ memory' = SetCell(memory, pointer, BufAfterRead(input, inpos))
    /\ UNCHANGED <<argVars, parseVars, pointer, stdout>>

\* The model stops a run whose output would pass MaxOut characters.
ExecOutput ==
    /\ AtOp("Output")
    /\ Len(stdout) < MaxOut
    /\ stdout' = Append(stdout, AsChar(Cell(memory, pointer)))
    /\ Continue
    /\ UNCHANGED <<argVars, parseVars, memory, pointer, inpos>>

\* The while of a Loop checks the current cell: the body is called, or
\* the for loop moves on.
ExecLoop ==
    /\ AtOp("Loop")
    /\ frames' = IF LoopEnters(Cell(memory, pointer))
                 THEN Append(frames, [ops |-> CurOp.body, pc |-> 1])
                 ELSE Advance(frames)
    /\ UNCHANGED <<argVars, parseVars, memory, pointer, inpos, stdout, ret>>

\* A bug: a Loop is an if, its body run once.
ReturnPastLoop(fr) == IF Len(fr) > 1 THEN Advance(Front(fr)) ELSE Front(fr)

\* The calls left when process_operations returns Ok(()): its caller is
\* the while of a Loop, which checks the cell again, or execute.
Return(fr) == Front(fr)

\* process_operations is through its operations and returns Ok(()); when
\* it returns to execute, the output is interpret's outcome.
ExecReturn ==
    /\ AtEnd
    /\ frames' = Return(frames)
    /\ ret' = IF Len(frames) = 1 THEN RetOk(stdout) ELSE ret
    /\ UNCHANGED <<argVars, parseVars, memory, pointer, inpos, stdout>>

ExecStep ==
    \/ ExecMoveLeft
    \/ ExecMoveRight
    \/ ExecIncrement
    \/ ExecDecrement
    \/ ExecInput
    \/ ExecOutput
    \/ ExecLoop
    \/ ExecReturn

Next ==
    \/ ParseStep
    \/ InterpretFail
    \/ InterpretExecute
    \/ ExecStep

----------------------------------------------------------------------------
(* interpret on every short program and input, and on chosen programs *)

\* The text of single characters written in a tuple.
Text(chars) == [i \in 1..Len(chars) |-> Piece(chars[i], 1)]

InputBytes == {0, 1, U8_MAX}

ReadResults == {ReadByte(b) : b \in InputBytes} \cup {ReadFault}

\* Longer inputs, of different bytes.
ChosenInputs ==
    { <<ReadByte(1), ReadByte(U8_MAX)>>,
      <<ReadByte(U8_MAX), ReadByte(1)>>,
      <<ReadByte(1), ReadByte(0), ReadByte(U8_MAX)>> }

Inputs == UNION {[1..k -> ReadResults] : k \in 0..MaxInLen} \cup ChosenInputs

ShortPrograms == Texts(InstrChars, MaxProgLen)

\* Programs of the test suite and programs whose loops meet a failure, a
\* cell at its limit or no end.
ChosenPrograms ==
    { Text(<<",", "[", ".", ",", "]">>),
      Text(<<">", ">", "<", "<", "<">>),
      Text(<<"+", "[", "+", "]">>),
      Text(<<"+", "[", "]">>),
      Text(<<"+", "[", ">", "]">>),
      Text(<<"+", "[", "[", "]", "]">>),
      Text(<<",", "[", ">", "<", "]">>),
      Text(<<",", ".", "[", "[", "<", "]", "]">>),
      Text(<<",", ".", "[", "-", "[", ",", "]", "]", ".">>),
      Text(<<",", "[", ".", "[", "-", "-", "]", "]">>),
      <<Piece("+", U8_MAX), Piece(">", 1), Piece("<", 1), Piece("+", 1)>>,
      <<Piece("+", U8_MAX), Piece(".", 1), Piece("-", U8_MAX), Piece("-", 1)>>,
      <<Piece("+", U8_MAX + 1), Piece(".", 1)>> }

\* Whether a source has a ',': no other program reads its input.
ReadsInput(src) == \E i \in 1..Len(src) : src[i].ch = ","

InputsOf(src) == IF ReadsInput(src) THEN Inputs ELSE {<<>>}

Init ==
    \E src \in ShortPrograms \cup ChosenPrograms :
        \E build \in Builds(src), in \in InputsOf(src) :
            Start(build, src, in)

Spec == Init /\ [][Next]_vars

----------------------------------------------------------------------------
(* Moves alone, near cell 0 and near the last cell *)

MovePrograms == Texts({">", "<"}, MaxMoveLen)

\* A run of '>' to the last cell but one, and what follows it.
TapeEndPrograms ==
    {<<Piece(">", MEMORY_SIZE - 2)>> \o t : t \in Texts({">", "+"}, MaxTailLen)}

InitTape ==
    \E src \in MovePrograms \cup TapeEndPrograms : Start(TRUE, src, <<>>)

NextTape ==
    \/ TokenMoveRight
    \/ TokenMoveLeft
    \/ TokenIncrement
    \/ ParseFinish
    \/ InterpretExecute
    \/ ExecMoveLeft
    \/ ExecMoveRight
    \/ ExecIncrement
    \/ ExecReturn

SpecTape == InitTape /\ [][NextTape]_vars

----------------------------------------------------------------------------
(* The cat program on every input *)

CatProgram == Text(<<",", "[", ".", ",", "]">>)

CatBytes == {0, 1, 2, U8_MAX}

CatInputs ==
    UNION {[1..k -> {ReadByte(b) : b \in CatBytes} \cup {ReadFault}] :
             k \in 0..MaxCatLen}

InitCat == \E in \in CatInputs : Start(TRUE, CatProgram, in)

NextCat ==
    \/ TokenInput
    \/ TokenOutput
    \/ TokenLoopBegin
    \/ TokenLoopEnd
    \/ ParseFinish
    \/ InterpretExecute
    \/ ExecInput
    \/ ExecOutput
    \/ ExecLoop
    \/ ExecReturn

\* interpret runs on one thread to its return: a step that can be taken
\* is taken.
SpecCat == InitCat /\ [][NextCat]_vars /\ WF_vars(NextCat)

----------------------------------------------------------------------------
(* Loops that only raise a value *)

PlusLoopPlus == Text(<<"+", "[", "+", "]">>)

PlusLoopRightPlus == Text(<<"+", "[", ">", "+", "]">>)

\* Neither program reads its input: the short one is run on every input,
\* the long one on the empty input.
InitRaise ==
    \/ \E in \in Inputs : Start(TRUE, PlusLoopPlus, in)
    \/ Start(TRUE, PlusLoopRightPlus, <<>>)

NextRaise ==
    \/ TokenMoveRight
    \/ TokenIncrement
    \/ TokenLoopBegin
    \/ TokenLoopEnd
    \/ ParseFinish
    \/ InterpretExecute
    \/ ExecMoveRight
    \/ ExecIncrement
    \/ ExecLoop
    \/ ExecReturn

SpecRaise == InitRaise /\ [][NextRaise]_vars /\ WF_vars(NextRaise)

----------------------------------------------------------------------------
(* What the source says, read off its characters *)

\* Whether the brackets of the pieces src are balanced and properly
\* nested, depth loops being open before them.
RECURSIVE BalancedFrom(_, _)
BalancedFrom(src, depth) ==
    IF src = <<>> THEN depth = 0
    ELSE IF Head(src).ch = "["
         THEN BalancedFrom(Tail(src), depth + Head(src).n)
    ELSE IF Head(src).ch = "]"
         THEN /\ depth >= Head(src).n
              /\ BalancedFrom(Tail(src), depth - Head(src).n)
    ELSE BalancedFrom(Tail(src), depth)

Balanced(src) == BalancedFrom(src, 0)

\* The position of the first "]" of src, from i on, that closes no "[",
\* 0 when every "]" closes one.
RECURSIVE FirstUnmatchedEnd(_, _, _)
FirstUnmatchedEnd(src, i, depth) ==
    IF i > SrcLen(src) THEN 0
    ELSE IF CharAt(src, i) = "[" THEN FirstUnmatchedEnd(src, i + 1, depth + 1)
    ELSE IF CharAt(src, i) = "]"
         THEN IF depth = 0 THEN i
              ELSE FirstUnmatchedEnd(src, i + 1, depth - 1)
    ELSE FirstUnmatchedEnd(src, i + 1, depth)

\* The source is one run of a single fused character.
IsRunOf(c) == Len(source) = 1 /\ source[1].ch = c /\ source[1].n >= 1

----------------------------------------------------------------------------
(* Claims about parse_source *)

\* C1: parse_source succeeds exactly when the brackets of the source are
\* balanced and properly nested, and fails with a ParseError otherwise.
C1_OkIffBalanced ==
    ~Parsing =>
        /\ parsed.tag = "Ok" <=> Balanced(source)
        /\ ~Balanced(source) => parsed.tag = "Err"

\* C7: a source that is one run of k identical '>', '<', '+' or '-'
\* compiles, for every k, to exactly one operation of that kind and count k.
C7_RunIsOneNode ==
    \A c \in FusedChars :
        (~Parsing /\ IsRunOf(c)) =>
            parsed = ParseOk(<<Op(Token(c), source[1].n, <<>>)>>)

\* C9: parse_source ends in success or in one of two errors, never in a
\* panic: "Unexpected end of loop" at the first ']' that closes nothing,
\* "Expected end of loop" when there is no such ']' and a '[' stays open.
C9_TwoFailures ==
    ~Parsing =>
        LET bad == FirstUnmatchedEnd(source, 1, 0)
        IN /\ parsed.tag \in {"Ok", "Err"}
           /\ parsed.tag = "Err" => parsed.msg \in {UnexpectedEnd, ExpectedEnd}
           /\ bad # 0 => parsed = ParseErr(UnexpectedEnd) /\ pos = bad
           /\ (bad = 0 /\ ~Balanced(source)) => parsed = ParseErr(ExpectedEnd)

\* The source without its characters outside the instruction table.
Stripped(src) == SelectSeq(src, LAMBDA p : p.ch \in InstrChars)

\* C11: characters outside the eight instructions are transparent: the
\* outcome of parse_source, tree or error, is its outcome on the source
\* with every such character removed.
C11_OtherCharactersAreTransparent ==
    ~Parsing => parsed = ParseSource(Stripped(source), overflow_checks)

\* '+x+' has compiled to one Increment of count 2.
C11_Witness ==
    /\ source = Text(<<"+", "x", "+">>)
    /\ parsed = ParseOk(<<Op("Increment", 2, <<>>)>>)

FusedKinds == {"MoveRight", "MoveLeft", "Increment", "Decrement"}

Inc1 == Op("Increment", 1, <<>>)

\* The trees of the texts that put something between two '+' or two '.'.
UnmergedTrees ==
    /\ source = Text(<<"+", ">", "+">>) =>
            parsed = ParseOk(<<Inc1, Op("MoveRight", 1, <<>>), Inc1>>)
    /\ source = Text(<<"+", ".", "+">>) =>
            parsed = ParseOk(<<Inc1, Op("Output", 0, <<>>), Inc1>>)
    /\ source = Text(<<"+", "[", "+", "]", "+">>) =>
            parsed = ParseOk(<<Inc1, Op("Loop", 0, <<Inc1>>), Inc1>>)
    /\ source = Text(<<".", ".">>) =>
            parsed = ParseOk(<<Op("Output", 0, <<>>), Op("Output", 0, <<>>)>>)

\* C13: fusion looks at the last operation of the current sequence alone.
\* A '>', '<', '+' or '-' token changes the count of that operation when
\* it is of the token's kind, and of no other; else it appends an
\* operation of count 1, also right after a '[' and right after a ']'.
\* An Input or Output token always appends.  So '+>+', '+.+', '+[+]+'
\* and '..' keep their two nodes apart.
C13_FusionLooksAtLastSibling ==
    [][/\ (Parsing /\ HasToken /\ parsed' = NoOutcome /\ CurToken \in FusedKinds) =>
            /\ Len(stack') = Len(stack)
            /\ Front(stack') = Front(stack)
            /\ IF Last(stack) # <<>> /\ Last(Last(stack)).kind = CurToken
               THEN /\ Len(Last(stack')) = Len(Last(stack))
                    /\ Front(Last(stack')) = Front(Last(stack))
                    /\ Last(Last(stack')).kind = CurToken
               ELSE Last(stack') = Append(Last(stack), Op(CurToken, 1, <<>>))
       /\ (Parsing /\ HasToken /\ CurToken \in {"Input", "Output"}) =>
            stack' = SetTop(stack, Append(Last(stack), Op(CurToken, 0, <<>>)))
       /\ (Parsing /\ HasToken /\ CurToken = "LoopBegin") =>
            Last(stack') = <<>> /\ Front(stack') = stack
       /\ (Parsing /\ HasToken /\ CurToken = "LoopEnd" /\ parsed' = NoOutcome) =>
            /\ Len(stack') = Len(stack) - 1
            /\ Last(Last(stack')) = Op("Loop", 0, Last(stack))
            /\ Front(Last(stack')) = Last(Front(stack))
       /\ ~Parsing' => UnmergedTrees'
      ]_vars

\* '+[+]+' has compiled to three nodes.
C13_Witness ==
    /\ source = Text(<<"+", "[", "+", "]", "+">>)
    /\ parsed = ParseOk(<<Inc1, Op("Loop", 0, <<Inc1>>), Inc1>>)

\* The number of '[' less the number of ']' among the first n characters
\* of the pieces src.
RECURSIVE OpenLoops(_, _)
OpenLoops(src, n) ==
    IF n = 0 \/ src = <<>> THEN 0
    ELSE LET k == IF Head(src).n < n THEN Head(src).n ELSE n
             rest == OpenLoops(Tail(src), n - k)
         IN IF Head(src).ch = "[" THEN rest + k
            ELSE IF Head(src).ch = "]" THEN rest - k
            ELSE rest

\* C19: whenever the token loop is to take a token, or the final pop is
\* to be made, the stack is not empty and holds one sequence more than
\* there are '[' not yet closed among the characters consumed, so
\* neither the expect nor an unwrap of a pop fails; when parse_source has
\* succeeded the stack is empty.
C19_StackAssertionsHold ==
    /\ Parsing =>
          /\ stack # <<>>
          /\ Len(stack) = 1 + OpenLoops(source, pos)
    /\ parsed.tag = "Ok" => stack = <<>>

\* '[[]]' has been parsed: the stack went up to three sequences and is
\* empty.
C19_Witness ==
    /\ parsed = ParseOk(<<Op("Loop", 0, <<Op("Loop", 0, <<>>)>>)>>)
    /\ stack = <<>>

----------------------------------------------------------------------------
(* Claims about the tape machine *)

PlusMinusMinus == Text(<<"+", "-", "-">>)

\* C2: cell arithmetic never wraps: Increment(n) on a cell holding v
\* fails with MemoryOverflow exactly when v + n > 255 and else leaves
\* v + n in the cell; Decrement(n) fails with MemoryOverflow exactly when
\* v - n < 0 and else leaves v - n; '+--' ends in MemoryOverflow.
C2_CheckedCells ==
    [][/\ AtOp("Increment") =>
            IF Cell(memory, pointer) + CurOp.count > U8_MAX
            THEN ret' = RetErr("MemoryOverflow", "")
            ELSE /\ ret' = RetNone
                 /\ Cell(memory', pointer') = Cell(memory, pointer) + CurOp.count
       /\ AtOp("Decrement") =>
            IF Cell(memory, pointer) - CurOp.count < 0
            THEN ret' = RetErr("MemoryOverflow", "")
            ELSE /\ ret' = RetNone
                 /\ Cell(memory', pointer') = Cell(memory, pointer) - CurOp.count
       /\ (source = PlusMinusMinus /\ ret'.tag # "None") =>
            ret' = RetErr("MemoryOverflow", "")
      ]_vars

\* '+--' has failed with MemoryOverflow.
C2_Witness ==
    source = PlusMinusMinus /\ ret = RetErr("MemoryOverflow", "")

\* C4: a failure is fatal at every depth: the step that fails leaves no
\* call of process_operations active and returns the error without any
\* output, no step follows a returned error, and a returned output is the
\* whole output.
C4_FailureIsFatal ==
    [][/\ ret.tag # "Err"
       /\ ret'.tag = "Err" => frames' = <<>> /\ ret'.out = <<>>
       /\ ret'.tag = "Ok" => frames' = <<>> /\ ret'.out = stdout'
      ]_vars

\* ',.[[<]]' has failed two loops deep, after it wrote a character.
C4_Witness ==
    /\ source = Text(<<",", ".", "[", "[", "<", "]", "]">>)
    /\ ret = RetErr("PointerOverflow", "")
    /\ stdout # <<>>

\* C6: an Input at the end of the input does not fail: it leaves 0 in the
\* current cell, whatever the cell held, the run goes on with the next
\* operation, and the input stays at its end.
C6_EndOfInputReadsZero ==
    [][(AtOp("Input") /\ inpos >= Len(input)) =>
            /\ ret' = RetNone
            /\ Cell(memory', pointer') = 0
            /\ pointer' = pointer
            /\ frames' = Advance(frames)
            /\ inpos' >= Len(input)
      ]_vars

\* An Increment and then an Input have run on an empty input, and the
\* cell holds 0.
C6_Witness ==
    /\ input = <<>>
    /\ Len(frames) = 1
    /\ Top.pc = 3
    /\ Top.ops[1].kind = "Increment"
    /\ Top.ops[2].kind = "Input"
    /\ Cell(memory, pointer) = 0
    /\ ret = RetNone

\* C8: a Loop met with a zero cell runs its body no time: the tape, the
\* pointer, the output and the input position stay as they are, and the
\* run goes on with the operation after the loop.
C8_ZeroIterationLoop ==
    [][(AtOp("Loop") /\ Cell(memory, pointer) = 0) =>
            /\ UNCHANGED <<memory, pointer, stdout, inpos, ret>>
            /\ frames' = Advance(frames)
      ]_vars

\* '[<]' is past its loop, whose body fails when it runs.
C8_Witness ==
    /\ Len(frames) = 1
    /\ Top.ops = <<Op("Loop", 0, <<Op("MoveLeft", 1, <<>>)>>)>>
    /\ Top.pc = 2
    /\ pointer = 0
    /\ ret = RetNone

\* The body of a loop is being walked.
InLoop == Len(frames) >= 2

\* The guard of an outermost loop is checked and the cell is zero.
OuterLoopEnds ==
    Len(frames) = 1 /\ AtOp("Loop") /\ Cell(memory, pointer) = 0

\* C10: there is no cap on a loop: once a loop body is being walked, if
\* from then on the guard of the outermost loop is never zero when it is
\* checked and no operation fails, interpret never returns.
C10_UnboundedLoopNeverReturns ==
    []((InLoop /\ [](~OuterLoopEnds) /\ [](ret.tag # "Err"))
          => [](ret.tag = "None"))

\* '+[]' is through its body and about to check its guard again.
C10_Witness ==
    /\ source = Text(<<"+", "[", "]">>)
    /\ Len(frames) = 2
    /\ AtEnd
    /\ ret = RetNone

\* C17: the guard of a Loop is the cell under the pointer when it is
\* checked: the body is called when the cell is not zero and the loop is
\* over when it is zero; the guard is checked when the Loop is reached and
\* again each time its body has been walked to the end, nothing else
\* happening in between; so a Loop that is over leaves cell[pointer] = 0,
\* at every depth.
C17_LoopGuardIsCurrentCell ==
    [][/\ AtOp("Loop") =>
            /\ UNCHANGED <<memory, pointer, stdout, inpos, ret>>
            /\ IF Cell(memory, pointer) # 0
               THEN frames' = Append(frames, [ops |-> CurOp.body, pc |-> 1])
               ELSE frames' = Advance(frames)
       /\ (AtEnd /\ InLoop) =>
            /\ UNCHANGED <<memory, pointer, stdout, inpos, ret>>
            /\ frames' = Front(frames)
            /\ AtOp("Loop")'
       /\ (AtOp("Loop") /\ frames' = Advance(frames)) =>
            Cell(memory', pointer') = 0
      ]_vars

PlusLoopRight == Text(<<"+", "[", ">", "]">>)

\* '+[>]' is past its loop: the body ran once and left the pointer on
\* cell 1, and cell 0, the current cell when the loop was entered, is not
\* zero.
C17_Witness ==
    /\ source = PlusLoopRight
    /\ Len(frames) = 1
    /\ Top.pc = 3
    /\ pointer = 1
    /\ Cell(memory, 0) = 1
    /\ ret = RetNone

\* The cells of the tape m that are not zero.
NonzeroCells(m) == UNION {m[k].lo..m[k].hi : k \in 1..Len(m)}

\* Every cell but cell i is after the step what it was before.
OtherCellsKept(i) ==
    \A j \in (NonzeroCells(memory) \cup NonzeroCells(memory')) \ {i} :
        Cell(memory', j) = Cell(memory, j)

\* The operation of this kind that the run is at succeeds in this step.
Succeeds(kind) == AtOp(kind) /\ ret' = RetNone

\* C18: an operation that succeeds changes its own part of the state and
\* no other: a move the pointer; Increment and Decrement the current
\* cell; Input the current cell and the input position; Output the output,
\* to which it appends the one character whose code point is the current
\* cell.  No step changes or removes a character of the output.
C18_OperationsChangeTheirOwnPart ==
    [][/\ (Succeeds("MoveRight") \/ Succeeds("MoveLeft")) =>
            UNCHANGED <<memory, stdout, inpos>>
       /\ (Succeeds("Increment") \/ Succeeds("Decrement")) =>
            OtherCellsKept(pointer) /\ UNCHANGED <<pointer, stdout, inpos>>
       /\ Succeeds("Input") =>
            OtherCellsKept(pointer) /\ UNCHANGED <<pointer, stdout>>
       /\ Succeeds("Output") =>
            /\ stdout' = Append(stdout, Cell(memory, pointer))
            /\ UNCHANGED <<memory, pointer, inpos>>
       /\ Len(stdout') >= Len(stdout)
       /\ SubSeq(stdout', 1, Len(stdout)) = stdout
      ]_vars

\* '+>+' has ended: the second increment left cell 0 as the first one
\* made it.
C18_Witness ==
    /\ source = Text(<<"+", ">", "+">>)
    /\ Cell(memory, 0) = 1
    /\ Cell(memory, 1) = 1
    /\ pointer = 1
    /\ ret = RetOk(<<>>)

\* C12: the input is read in order, one byte per Input: an Input that
\* meets a byte stores that byte, the next one of the input, into the
\* current cell and moves the input position on by one, and no other step
\* moves the input position.
C12_InputIsSequential ==
    [][/\ (AtOp("Input") /\ inpos < Len(input) /\ input[inpos + 1].ok) =>
            /\ Cell(memory', pointer') = input[inpos + 1].byte
            /\ pointer' = pointer
            /\ inpos' = inpos + 1
            /\ ret' = RetNone
       /\ ~AtOp("Input") => inpos' = inpos
      ]_vars

\* Two Inputs have stored the first two bytes of the input, which
\* differ, in cells 0 and 1.
C12_Witness ==
    /\ Len(input) >= 2
    /\ input[1].ok /\ input[2].ok
    /\ input[1].byte # input[2].byte
    /\ inpos = 2
    /\ Cell(memory, 0) = input[1].byte
    /\ Cell(memory, 1) = input[2].byte
    /\ ret = RetNone

----------------------------------------------------------------------------
(* The source run directly, one character at a time *)

\* The position of the ']' that closes the '[' before position i, depth
\* more loops being open at i.
RECURSIVE MatchingEnd(_, _, _)
MatchingEnd(src, i, depth) ==
    IF CharAt(src, i) = "]"
    THEN IF depth = 0 THEN i ELSE MatchingEnd(src, i + 1, depth - 1)
    ELSE IF CharAt(src, i) = "[" THEN MatchingEnd(src, i + 1, depth + 1)
    ELSE MatchingEnd(src, i + 1, depth)

\* The position of the '[' that the ']' after position i closes.
RECURSIVE MatchingBegin(_, _, _)
MatchingBegin(src, i, depth) ==
    IF CharAt(src, i) = "["
    THEN IF depth = 0 THEN i ELSE MatchingBegin(src, i - 1, depth - 1)
    ELSE IF CharAt(src, i) = "]" THEN MatchingBegin(src, i - 1, depth + 1)
    ELSE MatchingBegin(src, i - 1, depth)

\* A state of the direct run: the next character ip, the tape m, the
\* pointer p, the input position k, the output, and the result once the
\* run has ended.
DirectState(ip, m, p, k, out, res) ==
    [ip |-> ip, m |-> m, p |-> p, k |-> k, out |-> out, res |-> res]

DirectEnd(st, res) == [st EXCEPT !.res = res]

\* One character of a balanced source run: '>', '<', '+', '-' applied
\* once under the bounds checks of the tape machine.
DirectStep(src, in, st) ==
    IF st.res # RetNone THEN st
    ELSE IF st.ip > SrcLen(src) THEN DirectEnd(st, RetOk(st.out))
    ELSE LET c == CharAt(src, st.ip)
             v == Cell(st.m, st.p)
             next == [st EXCEPT !.ip = st.ip + 1]
         IN CASE c = ">" ->
                   IF st.p + 1 >= MEMORY_SIZE
                   THEN DirectEnd(st, RetErr("PointerOverflow", ""))
                   ELSE [next EXCEPT !.p = st.p + 1]
              [] c = "<" ->
                   IF st.p = 0
                   THEN DirectEnd(st, RetErr("PointerOverflow", ""))
                   ELSE [next EXCEPT !.p = st.p - 1]
              [] c = "+" ->
                   IF v + 1 > U8_MAX
                   THEN DirectEnd(st, RetErr("MemoryOverflow", ""))
                   ELSE [next EXCEPT !.m = SetCell(st.m, st.p, v + 1)]
              [] c = "-" ->
                   IF v = 0
                   THEN DirectEnd(st, RetErr("MemoryOverflow", ""))
                   ELSE [next EXCEPT !.m = SetCell(st.m, st.p, v - 1)]
              [] c = "," ->
                   IF st.k < Len(in) /\ ~in[st.k + 1].ok
                   THEN DirectEnd(st, RetErr("StdinError", ""))
                   ELSE IF st.k < Len(in)
                        THEN [next EXCEPT
                                 !.m = SetCell(st.m, st.p, in[st.k + 1].byte),
                                 !.k = st.k + 1]
                   ELSE [next EXCEPT !.m = SetCell(st.m, st.p, 0)]
              [] c = "." -> [next EXCEPT !.out = Append(st.out, v)]
              [] c = "[" ->
                   IF v = 0
                   THEN [st EXCEPT !.ip = MatchingEnd(src, st.ip + 1, 0) + 1]
                   ELSE next
              [] c = "]" ->
                   IF v # 0
                   THEN [st EXCEPT !.ip = MatchingBegin(src, st.ip - 1, 0) + 1]
                   ELSE next
              [] OTHER -> next

\* The state after n more characters, or the one the run ended in.
RECURSIVE DirectSteps(_, _, _, _)
DirectSteps(src, in, st, n) ==
    IF n = 0 \/ st.res # RetNone THEN st
    ELSE IF n = 1 THEN DirectStep(src, in, st)
    ELSE LET half == DirectSteps(src, in, st, n \div 2)
         IN DirectSteps(src, in, half, n - n \div 2)

\* What the run of the source ends with, RetNone when it has not ended
\* after MaxDirectSteps characters.
DirectRun(src, in) ==
    DirectSteps(src, in, DirectState(1, ZeroMemory, 0, 0, <<>>, RetNone),
                MaxDirectSteps).res

\* C14: folding does not change what a balanced source does: when
\* interpret ends, it ends as the character-by-character run of the
\* source does, with the same output or the same error.
C14_FoldingKeepsBehaviour ==
    (ret # RetNone /\ Balanced(source)) => ret = DirectRun(source, input)

----------------------------------------------------------------------------
(* Claims about moves *)

RightRightLeftLeftLeft == Text(<<">", ">", "<", "<", "<">>)

\* C3: moves are checked: MoveRight(n) at pointer p fails with
\* PointerOverflow exactly when p + n >= 30000 and else leaves p + n;
\* MoveLeft(n) fails with PointerOverflow exactly when n > p and else
\* leaves p - n; the pointer of a run that has not failed is at most
\* 29999; '>><<<' ends in PointerOverflow.
C3_CheckedMoves ==
    [][/\ AtOp("MoveRight") =>
            IF pointer + CurOp.count >= MEMORY_SIZE
            THEN ret' = RetErr("PointerOverflow", "")
            ELSE ret' = RetNone /\ pointer' = pointer + CurOp.count
       /\ AtOp("MoveLeft") =>
            IF CurOp.count > pointer
            THEN ret' = RetErr("PointerOverflow", "")
            ELSE ret' = RetNone /\ pointer' = pointer - CurOp.count
       /\ ret'.tag # "Err" => pointer' <= MEMORY_SIZE - 1
       /\ (source = RightRightLeftLeftLeft /\ ret'.tag # "None") =>
            ret' = RetErr("PointerOverflow", "")
      ]_vars

\* A run has ended well with the pointer on the last cell.
C3_Witness == pointer = MEMORY_SIZE - 1 /\ ret.tag = "Ok"

\* The operations that read or write memory[pointer].
CellAccesses == {"Increment", "Decrement", "Input", "Output", "Loop"}

AtCellAccess == \E kind \in CellAccesses : AtOp(kind)

\* C15: while execution has not failed the pointer is a cell of the
\* tape, so every cell access is inside the tape and only cells of the
\* tape are ever written; after a move to the right that would leave the
\* tape no operation runs.
C15_PointerStaysOnTape ==
    /\ ret.tag # "Err" => pointer \in 0..(MEMORY_SIZE - 1)
    /\ AtCellAccess => pointer \in 0..(MEMORY_SIZE - 1)
    /\ \A k \in 1..Len(memory) :
           memory[k].lo >= 0 /\ memory[k].hi <= MEMORY_SIZE - 1
    /\ pointer >= MEMORY_SIZE => ~Executing

\* The last cell was written, and the next move to the right failed.
C15_Witness ==
    /\ Cell(memory, MEMORY_SIZE - 1) # 0
    /\ pointer >= MEMORY_SIZE
    /\ ret = RetErr("PointerOverflow", "")

----------------------------------------------------------------------------
(* Claims about loops that only raise a value *)

\* This step ends the run.
RunEnds == ret = RetNone /\ ret' # RetNone

\* C16: a loop that only raises a value ends in an error and returns no
\* output.  '+[+]' ends on any input, with MemoryOverflow, at the
\* increment of cell 0 from 255, the cell having gone up one at a time;
\* '+[>+]' ends with PointerOverflow at the move to the right from
\* cell 29999, every cell of the tape holding 1.
C16_RaisingLoopsEndInError ==
    /\ <>(ret # RetNone)
    /\ [](ret.tag # "Ok")
    /\ [][/\ source = PlusLoopPlus =>
                /\ Cell(memory', 0) \in {Cell(memory, 0), Cell(memory, 0) + 1}
                /\ RunEnds =>
                      /\ AtOp("Increment")
                      /\ pointer = 0
                      /\ Cell(memory, 0) = U8_MAX
                      /\ ret' = RetErr("MemoryOverflow", "")
          /\ (source = PlusLoopRightPlus /\ RunEnds) =>
                /\ AtOp("MoveRight")
                /\ pointer = MEMORY_SIZE - 1
                /\ \A i \in 0..(MEMORY_SIZE - 1) : Cell(memory, i) = 1
                /\ ret' = RetErr("PointerOverflow", "")
         ]_vars

\* '+[>+]' has ended in PointerOverflow with the last cell set.
C16_Witness ==
    /\ source = PlusLoopRightPlus
    /\ Cell(memory, MEMORY_SIZE - 1) = 1
    /\ ret = RetErr("PointerOverflow", "")

----------------------------------------------------------------------------
(* Claims about the cat program *)

\* The input has no fault and no zero byte.
CleanInput ==
    \A i \in 1..Len(input) : input[i].ok /\ input[i].byte # 0

InputText == [i \in 1..Len(input) |-> input[i].byte]

\* C5: on an input without a zero byte, ',[.,]' ends well and returns
\* the input: one character per byte, in order, with the byte's value.
C5_CatIsIdentity == CleanInput => <>(ret = RetOk(InputText))

\* The cat program has returned an input of two different bytes or more.
C5_Witness ==
    /\ CleanInput
    /\ Len(input) >= 2
    /\ input[1].byte # input[2].byte
    /\ ret = RetOk(InputText)

====
